---- MODULE Spec2Model ----
(***************************************************************************)
(* Doubly linked list over raw node pointers (linked-list-rust).           *)
(*                                                                         *)
(* The heap is modelled at the level of node addresses: `mem` holds the    *)
(* bytes at every address, `live` the addresses currently allocated, and   *)
(* `brk` the number of allocations made so far (every Box::new returns a   *)
(* fresh address, so a pointer to a freed block is never mistaken for a    *)
(* pointer to a later allocation).                                         *)
(*                                                                         *)
(* A call that reads, writes or frees a block that is not allocated is     *)
(* undefined behaviour.  The model computes such a call from a             *)
(* nondeterministic view of the freed blocks (their bytes left intact, or  *)
(* their link words overwritten by the allocator), records the call's      *)
(* result, sets `status` to "ub" and stops: no call is made after it.      *)
(* A loop that can never end sets `status` to "hang".                      *)
(*                                                                         *)
(* `ref`, `net`, `joined` and `last` are history variables: the element    *)
(* sequence a reference deque would hold, the pushes minus the pops that   *)
(* returned a value, whether the list is the result of appending a         *)
(* non-empty list to a non-empty list (and has since seen only push_back   *)
(* and pop_back), and the last call with its result and the reference      *)
(* result.  `calls` counts the calls made through cursors, which the       *)
(* model caps at MaxCalls, the calls of insert_at, remove_at, split_at     *)
(* and splice_at included.                                                 *)
(***************************************************************************)
EXTENDS Integers, Sequences, FiniteSets, TLC

\* ---- bounds -------------------------------------------------------------
MaxNodes == 5
MaxPush == 3
MaxVal == 2
MaxSteps == 3
MaxIndex == 4
MaxCalls == 3

\* ---- basic sets ---------------------------------------------------------
Node == 1..MaxNodes
NULL == 0
None == 0
Diverge == 0 - 1
Values == 1..MaxVal
ListId == {"A", "B"}
\* how a call sees a freed block: bytes intact, or link words overwritten
Views == {"stale", "zero"}

VARIABLES mem, live, brk, list, scope, dfree, status, it, cur, ref, net, joined, last,
          calls

vars == <<mem, live, brk, list, scope, dfree, status, it, cur, ref, net, joined, last,
          calls>>

\* Node::new: the value with both links null
NodeNew(v) == [val |-> v, prev |-> NULL, next |-> NULL]

\* LinkedList::new: head and tail null
ListNew == [head |-> NULL, tail |-> NULL]

\* the concrete program state the operations below transform
St == [mem |-> mem, live |-> live, brk |-> brk, list |-> list,
       dfree |-> dfree, status |-> status]

Reverse(s) == [i \in 1..Len(s) |-> s[Len(s) + 1 - i]]

Front(s) == SubSeq(s, 1, Len(s) - 1)

\* *p for reading: the node at address p, as the view g shows it if freed
\* (a null p faults: the call does not get past the read)
Rd(s, p, g) ==
  IF p = NULL THEN [val |-> None, prev |-> NULL, next |-> NULL]
  ELSE IF p \in s.live \/ g = "stale" THEN s.mem[p]
  ELSE [s.mem[p] EXCEPT !.prev = NULL, !.next = NULL]

\* a dereference of p: undefined behaviour unless p is allocated
Use(s, p) == IF p \in s.live THEN s ELSE [s EXCEPT !.status = "ub"]

\* (*p).next = q and (*p).prev = q
WrNext(s, p, q) ==
  IF p = NULL THEN [s EXCEPT !.status = "ub"]
  ELSE [Use(s, p) EXCEPT !.mem[p].next = q]

WrPrev(s, p, q) ==
  IF p = NULL THEN [s EXCEPT !.status = "ub"]
  ELSE [Use(s, p) EXCEPT !.mem[p].prev = q]

\* Box::into_raw(Box::new(Node::new(elem))): a fresh address
BoxNew(s, v) ==
  [s EXCEPT !.mem[s.brk + 1] = NodeNew(v), !.live = @ \cup {s.brk + 1}, !.brk = @ + 1]

\* Dropping the Box made by Box::from_raw(a): the block is returned to the
\* allocator; freeing a block that is not allocated is a double free.
BoxDrop(s, a) ==
  [s EXCEPT !.live = @ \ {a},
            !.dfree = @ \/ (a \notin s.live),
            !.status = IF a \notin s.live THEN "ub" ELSE @]

\* ---- List core (methods.rs) --------------------------------------------

\* the successor chain from p, cut after fuel nodes
RECURSIVE Chain(_, _, _, _)
Chain(s, p, fuel, g) ==
  IF p = NULL \/ fuel = 0 THEN <<>>
  ELSE <<p>> \o Chain(s, Rd(s, p, g).next, fuel - 1, g)

\* the predecessor chain from p, cut after fuel nodes
RECURSIVE ChainBack(_, _, _, _)
ChainBack(s, p, fuel, g) ==
  IF p = NULL \/ fuel = 0 THEN <<>>
  ELSE <<p>> \o ChainBack(s, Rd(s, p, g).prev, fuel - 1, g)

\* every address of the chain c is allocated
Sound(s, c) == \A i \in 1..Len(c) : c[i] \in s.live

\* LinkedList::len: count the nodes from head along next.  A walk of more
\* than MaxNodes nodes has revisited an address, so the loop never ends.
len(s, l, g) ==
  LET c == Chain(s, s.list[l].head, MaxNodes + 1, g)
  IN IF Len(c) > MaxNodes THEN Diverge ELSE Len(c)

\* the status after a call of len(): it dereferences every node it counts
lenStatus(s, l, g) ==
  LET c == Chain(s, s.list[l].head, MaxNodes + 1, g)
  IN IF Len(c) > MaxNodes THEN "hang"
     ELSE IF Sound(s, c) THEN s.status ELSE "ub"

is_empty(s, l) == s.list[l].head = NULL

push_front(s, l, v) ==
  LET s1 == BoxNew(s, v)
      a == s1.brk
      h == s.list[l].head
      s2 == [s1 EXCEPT !.mem[a].next = h]
      s3 == IF h = NULL
            THEN [s2 EXCEPT !.list[l].tail = a]
            ELSE [Use(s2, h) EXCEPT !.mem[h].prev = a]
  IN [s3 EXCEPT !.list[l].head = a]

push_back(s, l, v) ==
  LET s1 == BoxNew(s, v)
      a == s1.brk
      t == s.list[l].tail
      s2 == [s1 EXCEPT !.mem[a].prev = t]
      s3 == IF t = NULL
            THEN [s2 EXCEPT !.list[l].head = a]
            ELSE [Use(s2, t) EXCEPT !.mem[t].next = a]
  IN [s3 EXCEPT !.list[l].tail = a]

pop_front(s, l, g) ==
  LET h == s.list[l].head IN
  IF h = NULL THEN [st |-> s, ret |-> None]
  ELSE LET node == Rd(s, h, g)
           s1 == [s EXCEPT !.list[l].head = node.next]
           s2 == IF node.next = NULL
                 THEN [s1 EXCEPT !.list[l].tail = NULL]
                 ELSE s1
       IN [st |-> BoxDrop(s2, h), ret |-> node.val]

pop_back(s, l, g) ==
  LET t == s.list[l].tail IN
  IF t = NULL THEN [st |-> s, ret |-> None]
  ELSE LET node == Rd(s, t, g)
           s1 == [s EXCEPT !.list[l].tail = node.prev]
           s2 == IF node.prev = NULL
                 THEN [s1 EXCEPT !.list[l].head = NULL]
                 ELSE s1
       IN [st |-> BoxDrop(s2, t), ret |-> node.val]

peek_front(s, l, g) ==
  IF s.list[l].head = NULL THEN None ELSE Rd(s, s.list[l].head, g).val

peek_back(s, l, g) ==
  IF s.list[l].tail = NULL THEN None ELSE Rd(s, s.list[l].tail, g).val

\* LinkedList::clear and Drop::drop: while self.pop_front().is_some() {}.
\* The links do not change during the loop, so more than MaxNodes
\* iterations revisit an address and the loop never ends.
RECURSIVE clear(_, _, _, _)
clear(s, l, g, fuel) ==
  LET r == pop_front(s, l, g) IN
  IF r.ret = None THEN r.st
  ELSE IF fuel = 0 THEN [r.st EXCEPT !.status = "hang"]
  ELSE clear(r.st, l, g, fuel - 1)

\* append with the assignment self.tail = other.tail left out: the joined
\* list keeps its old tail (the variant the round-trip properties are
\* measured against)
append_keeps_tail(s, a, b) ==
  IF is_empty(s, b) THEN s
  ELSE LET t == s.list[a].tail
           s1 == IF t # NULL
                 THEN [Use(s, t) EXCEPT !.mem[t].next = s.list[b].head]
                 ELSE s
           s3 == IF s.list[a].head = NULL
                 THEN [s1 EXCEPT !.list[a].head = s.list[b].head]
                 ELSE s1
       IN [s3 EXCEPT !.list[b] = ListNew]

\* LinkedList::append
append(s, a, b) ==
  IF is_empty(s, b) THEN s
  ELSE LET t == s.list[a].tail
           s1 == IF t # NULL
                 THEN [Use(s, t) EXCEPT !.mem[t].next = s.list[b].head]
                 ELSE s
           s2 == [s1 EXCEPT !.list[a].tail = s.list[b].tail]
           s3 == IF s.list[a].head = NULL
                 THEN [s2 EXCEPT !.list[a].head = s.list[b].head]
                 ELSE s2
       IN [s3 EXCEPT !.list[b] = ListNew]

\* ---- Traversal iterators (combinatorics.rs) ---------------------------
\* An iterator is [kind, l, head, tail, size, rem]; rem is a history field,
\* the elements a reference iterator has not yet yielded.

\* LinkedList::iter and LinkedList::iter_mut
iter(s, l, kind, g) ==
  [kind |-> kind, l |-> l, head |-> s.list[l].head, tail |-> s.list[l].tail,
   size |-> len(s, l, g)]

\* LinkedList::into_iter: IntoIter(self), the list moves into the iterator
into_iter(s, l) ==
  [kind |-> "into_iter", l |-> l, head |-> NULL, tail |-> NULL, size |-> 0]

\* Iter::next and IterMut::next (the same code)
Iter_next(i, s, g) ==
  IF i.head = NULL THEN [i |-> i, st |-> s, ret |-> None]
  ELSE LET curr == i.head
           nx == Rd(s, i.head, g).next
           i1 == [i EXCEPT !.head = nx]
           i2 == IF nx = NULL THEN [i1 EXCEPT !.tail = NULL] ELSE i1
       IN [i |-> i2, st |-> Use(s, curr), ret |-> Rd(s, curr, g).val]

\* Iter::next_back and IterMut::next_back (the same code)
Iter_next_back(i, s, g) ==
  IF i.tail = NULL THEN [i |-> i, st |-> s, ret |-> None]
  ELSE LET curr == i.tail
           pv == Rd(s, i.tail, g).prev
           i1 == [i EXCEPT !.tail = pv]
           i2 == IF pv = NULL THEN [i1 EXCEPT !.head = NULL] ELSE i1
       IN [i |-> i2, st |-> Use(s, curr), ret |-> Rd(s, curr, g).val]

\* IntoIter::next: self.0.pop_front()
IntoIter_next(i, s, g) ==
  LET r == pop_front(s, i.l, g) IN [i |-> i, st |-> r.st, ret |-> r.ret]

\* IntoIter::next_back: self.0.pop_back()
IntoIter_next_back(i, s, g) ==
  LET r == pop_back(s, i.l, g) IN [i |-> i, st |-> r.st, ret |-> r.ret]

\* Iter::size_hint, IterMut::size_hint: (self.size, Some(self.size));
\* IntoIter::size_hint: self.0.len().  The model keeps the one number.
size_hint(i, s, g) ==
  IF i.kind = "into_iter" THEN len(s, i.l, g) ELSE i.size

\* Extend::extend over an IntoIter, as FromIterator::from_iter calls it:
\* for elem in iter.into_iter() { self.push_back(elem) }
RECURSIVE extend(_, _, _, _, _)
extend(s, dst, src, g, fuel) ==
  LET r == pop_front(s, src, g) IN
  IF r.ret = None THEN r.st
  ELSE IF fuel = 0 THEN [r.st EXCEPT !.status = "hang"]
  ELSE extend(push_back(r.st, dst, r.ret), dst, src, g, fuel - 1)

\* FromIterator::from_iter(src.into_iter()): a new list dst, extended from
\* the iterator, which is then dropped together with the list it owns
from_iter(s, dst, src, g) ==
  LET s1 == [s EXCEPT !.list[dst] = ListNew]
      s2 == extend(s1, dst, src, g, MaxNodes)
  IN clear(s2, src, g, MaxNodes)

\* ---- Mutable cursor (cursors/mod.rs, cursors/cursor_mut.rs) -----------
\* A cursor is [kind, l, curr, index, length, pos]; pos is a history field,
\* the index a reference cursor over the reference sequence would have.

cursor_front_mut(s, l, g) ==
  [kind |-> "cursor_mut", l |-> l, curr |-> s.list[l].head, index |-> 0,
   length |-> len(s, l, g)]

cursor_back_mut(s, l, g) ==
  [kind |-> "cursor_mut", l |-> l, curr |-> s.list[l].tail,
   index |-> len(s, l, g) - 1, length |-> len(s, l, g)]

move_prev(c, s, g) ==
  IF c.index = 0
  THEN [c |-> [c EXCEPT !.curr = s.list[c.l].tail, !.index = c.length - 1],
        st |-> s]
  ELSE [c |-> [c EXCEPT !.curr = Rd(s, c.curr, g).prev, !.index = @ - 1],
        st |-> Use(s, c.curr)]

move_next(c, s, g) ==
  IF c.index = c.length - 1
  THEN [c |-> [c EXCEPT !.curr = s.list[c.l].head, !.index = 0], st |-> s]
  ELSE [c |-> [c EXCEPT !.curr = Rd(s, c.curr, g).next, !.index = @ + 1],
        st |-> Use(s, c.curr)]

RECURSIVE move_prev_n(_, _, _, _)
move_prev_n(c, s, g, n) ==
  IF n = 0 THEN [c |-> c, st |-> s]
  ELSE LET r == move_prev(c, s, g) IN move_prev_n(r.c, r.st, g, n - 1)

RECURSIVE move_next_n(_, _, _, _)
move_next_n(c, s, g, n) ==
  IF n = 0 THEN [c |-> c, st |-> s]
  ELSE LET r == move_next(c, s, g) IN move_next_n(r.c, r.st, g, n - 1)

\* CursorMut::step_by: move_prev over final_index..index when the final
\* index is smaller; the range index..final_index that follows is then
\* empty.  Otherwise move_next over index..final_index.
step_by(c, s, steps, g) ==
  LET final_index == (c.index + (steps % c.length)) % c.length IN
  IF c.index > final_index
  THEN move_prev_n(c, s, g, c.index - final_index)
  ELSE move_next_n(c, s, g, final_index - c.index)

step_by_backward(c, s, steps, g) ==
  step_by(c, s, c.length - (steps % c.length), g)

insert(c, s, v, g) ==
  LET s1 == BoxNew(s, v)
      a == s1.brk
      s2 == [Use(s1, c.curr) EXCEPT !.mem[a].next = Rd(s, c.curr, g).next,
                                    !.mem[a].prev = c.curr]
      s3 == WrNext(s2, c.curr, a)
      s4 == IF c.index = c.length - 1
            THEN [s3 EXCEPT !.list[c.l].tail = a]
            ELSE s3
  IN move_next([c EXCEPT !.length = @ + 1], s4, g)

\* remove with the predecessor's successor link left as it is: the node
\* before the removed one keeps pointing at it (the variant the round-trip
\* properties are measured against)
remove_keeps_link(c, s, g) ==
  IF c.length < 2 THEN [c |-> c, st |-> s, ret |-> None]
  ELSE LET boxed_node == Rd(s, c.curr, g)
           s0 == Use(s, c.curr)
           s1 == IF boxed_node.prev # NULL
                 THEN s0
                 ELSE [s0 EXCEPT !.list[c.l].head = boxed_node.next]
           s2 == IF boxed_node.next # NULL
                 THEN WrPrev(s1, boxed_node.next, boxed_node.prev)
                 ELSE [s1 EXCEPT !.list[c.l].tail = boxed_node.prev]
           c1 == IF boxed_node.next # NULL
                 THEN [c EXCEPT !.curr = boxed_node.next]
                 ELSE [c EXCEPT !.curr = s2.list[c.l].head]
           c2 == [c1 EXCEPT !.length = @ - 1]
           c3 == [c2 EXCEPT !.index = @ % c2.length]
       IN [c |-> c3,
           st |-> IF c.curr = NULL THEN s2 ELSE BoxDrop(s2, c.curr),
           ret |-> boxed_node.val]

\* CursorMut::remove; ret is None for Err(RemoveUnderCursorError)
remove(c, s, g) ==
  IF c.length < 2 THEN [c |-> c, st |-> s, ret |-> None]
  ELSE LET boxed_node == Rd(s, c.curr, g)
           s0 == Use(s, c.curr)
           s1 == IF boxed_node.prev # NULL
                 THEN WrNext(s0, boxed_node.prev, boxed_node.next)
                 ELSE [s0 EXCEPT !.list[c.l].head = boxed_node.next]
           s2 == IF boxed_node.next # NULL
                 THEN WrPrev(s1, boxed_node.next, boxed_node.prev)
                 ELSE [s1 EXCEPT !.list[c.l].tail = boxed_node.prev]
           c1 == IF boxed_node.next # NULL
                 THEN [c EXCEPT !.curr = boxed_node.next]
                 ELSE [c EXCEPT !.curr = s2.list[c.l].head]
           c2 == [c1 EXCEPT !.length = @ - 1]
           c3 == [c2 EXCEPT !.index = @ % c2.length]
       IN [c |-> c3,
           st |-> IF c.curr = NULL THEN s2 ELSE BoxDrop(s2, c.curr),
           ret |-> boxed_node.val]

\* CursorMut::split; the returned list is bound to the variable o
split(c, s, o, g) ==
  LET s0 == [Use(s, c.curr) EXCEPT !.list[o] = ListNew] IN
  IF Rd(s, c.curr, g).next # NULL
  THEN LET s1 == [s0 EXCEPT !.list[o] = [head |-> Rd(s, c.curr, g).next,
                                         tail |-> s.list[c.l].tail]]
           s2 == WrNext(s1, c.curr, NULL)
           s3 == [s2 EXCEPT !.list[c.l].tail = c.curr]
       IN [c |-> [c EXCEPT !.length = len(s3, c.l, g)],
           st |-> [s3 EXCEPT !.status =
                     IF @ = "run" THEN lenStatus(s3, c.l, g) ELSE @]]
  ELSE [c |-> c, st |-> s0]

\* CursorMut::splice; other is the list bound to the variable o, which the
\* call consumes (it is dropped, empty, when the call returns)
splice(c, s, o, g) ==
  IF is_empty(s, o) THEN [c |-> c, st |-> s]
  ELSE LET other == s.list[o]
           other_len == len(s, o, g)
           s0 == [Use(s, c.curr) EXCEPT !.status =
                     IF lenStatus(s, o, g) = "run" THEN @ ELSE lenStatus(s, o, g)]
           curr_next == Rd(s, c.curr, g).next
           s1 == IF curr_next # NULL
                 THEN WrNext(WrPrev(s0, curr_next, other.tail),
                             other.tail, curr_next)
                 ELSE [s0 EXCEPT !.list[c.l].tail = other.tail]
           s2 == WrNext(s1, c.curr, other.head)
       IN [c |-> [c EXCEPT !.curr = other.tail,
                           !.length = @ + other_len,
                           !.index = @ + other_len],
           st |-> [s2 EXCEPT !.list[o] = ListNew]]

\* ---- Positional facade (methods.rs) ------------------------------------

\* self.cursor_front_mut().unwrap() on a list whose head is not null: the
\* cursor, and the state after the len() the constructor calls
FrontCursor(s, l, g) ==
  [c |-> cursor_front_mut(s, l, g),
   st |-> [s EXCEPT !.status = IF @ = "run" THEN lenStatus(s, l, g) ELSE @]]

\* a call whose len() loop never ends
Hung(s) == [s EXCEPT !.status = "hang"]

insert_at(s, l, elem, index, g) ==
  IF is_empty(s, l) \/ index = 0 THEN push_front(s, l, elem)
  ELSE IF lenStatus(s, l, g) = "hang" THEN Hung(s)
  ELSE LET f == FrontCursor(s, l, g)
           r == step_by(f.c, f.st, index - 1, g)
       IN insert(r.c, r.st, elem, g).st

\* LinkedList::remove_at; ret is None for Err(RemoveUnderCursorError)
remove_at(s, l, index0, g) ==
  IF is_empty(s, l) THEN [st |-> s, ret |-> None]
  ELSE IF lenStatus(s, l, g) = "hang" THEN [st |-> Hung(s), ret |-> None]
  ELSE LET f == FrontCursor(s, l, g)
           length == len(s, l, g)
           index == index0 % length
       IN IF index = 0 THEN pop_front(f.st, l, g)
          ELSE IF index = length - 1 THEN pop_back(f.st, l, g)
          ELSE LET r == step_by(f.c, f.st, index - 1, g)
                   x == remove(r.c, r.st, g)
               IN [st |-> x.st, ret |-> x.ret]

\* LinkedList::split_at; the returned list is bound to the variable o
split_at(s, l, o, index, g) ==
  IF is_empty(s, l) THEN [s EXCEPT !.list[o] = ListNew]
  ELSE IF lenStatus(s, l, g) = "hang" THEN Hung(s)
  ELSE LET f == FrontCursor(s, l, g)
           r == step_by(f.c, f.st, index, g)
       IN split(r.c, r.st, o, g).st

\* LinkedList::splice_at; other is the list bound to the variable o, which
\* the call consumes (it is dropped, with null head, when the call returns)
splice_at(s, l, o, index, g) ==
  IF is_empty(s, l)
  THEN [s EXCEPT !.list[l] = s.list[o], !.list[o] = ListNew]
  ELSE IF lenStatus(s, l, g) = "hang" THEN Hung(s)
  ELSE LET f == FrontCursor(s, l, g)
           r == step_by(f.c, f.st, index, g)
       IN splice(r.c, r.st, o, g).st

\* What current(), prev() and next() return: the value read at address p
\* and an index.  A null curr reaches unreachable!() and panics; reading a
\* null or freed p is undefined behaviour (ub).
Peek(c, s, p, index, g) ==
  IF c.curr = NULL
  THEN [panic |-> TRUE, ub |-> FALSE, val |-> None, index |-> c.index]
  ELSE [panic |-> FALSE, ub |-> p \notin s.live, val |-> Rd(s, p, g).val,
        index |-> index]

\* the result of a peek that neither panics nor is undefined
Seen(v, index) == [panic |-> FALSE, ub |-> FALSE, val |-> v, index |-> index]

\* Cursor::current and CursorMut::current_mut (the same code)
Cursor_current(c, s, g) == Peek(c, s, c.curr, c.index, g)

\* Cursor::prev and CursorMut::prev_mut (the same code)
Cursor_prev(c, s, g) ==
  IF c.index = 0
  THEN Peek(c, s, s.list[c.l].tail, c.length - 1, g)
  ELSE Peek(c, s, Rd(s, c.curr, g).prev, c.index - 1, g)

\* Cursor::next and CursorMut::next_mut (the same code)
Cursor_next(c, s, g) ==
  IF c.index = c.length - 1
  THEN Peek(c, s, s.list[c.l].head, 0, g)
  ELSE Peek(c, s, Rd(s, c.curr, g).next, c.index + 1, g)

\* Cursor::step_by: walk the shorter way round to the final index
Cursor_step_by(c, s, steps, g) ==
  LET final_index == (c.index + (steps % c.length)) % c.length IN
  IF final_index = c.index THEN [c |-> c, st |-> s]
  ELSE IF final_index > c.index
  THEN LET dist == final_index - c.index
           alt_dist == c.length - dist
       IN IF alt_dist < dist THEN move_prev_n(c, s, g, alt_dist)
          ELSE move_next_n(c, s, g, dist)
  ELSE LET dist == c.index - final_index
           alt_dist == c.length - dist
       IN IF dist < alt_dist THEN move_prev_n(c, s, g, dist)
          ELSE move_next_n(c, s, g, alt_dist)

\* Cursor::step_by_backward
Cursor_step_by_backward(c, s, steps, g) ==
  Cursor_step_by(c, s, c.length - (steps % c.length), g)

\* ---- observations -------------------------------------------------------

\* the values read along a chain of addresses
ValsOf(s, c, g) == [i \in 1..Len(c) |-> Rd(s, c[i], g).val]

\* what repeated Iter::next() yields on a fresh iter() of list l
Fwd(s, l, g) == ValsOf(s, Chain(s, s.list[l].head, MaxNodes + 1, g), g)

\* what repeated Iter::next_back() yields on a fresh iter() of list l
Bwd(s, l, g) == ValsOf(s, ChainBack(s, s.list[l].tail, MaxNodes + 1, g), g)

\* the address of the node at distance i from the head of list l along
\* successor links (NULL if there is none)
NodeAt(s, l, i, g) ==
  LET c == Chain(s, s.list[l].head, MaxNodes + 1, g)
  IN IF i >= 0 /\ i < Len(c) THEN c[i + 1] ELSE NULL

\* the element at 0-based position i of the sequence q (None if there is none)
Elem(q, i) == IF i >= 0 /\ i < Len(q) THEN q[i + 1] ELSE None

\* step_by of the cursor's own kind
StepBy(c, s, steps, g) ==
  IF c.kind = "cursor" THEN Cursor_step_by(c, s, steps, g)
  ELSE step_by(c, s, steps, g)

\* ---- the reference deque ------------------------------------------------
RefPopFront(q) == IF q = <<>> THEN None ELSE Head(q)
RefPopBack(q) == IF q = <<>> THEN None ELSE q[Len(q)]

\* insert v after position pos (0-based) of q
RefInsert(q, pos, v) ==
  IF pos < Len(q)
  THEN SubSeq(q, 1, pos + 1) \o <<v>> \o SubSeq(q, pos + 2, Len(q))
  ELSE q

\* remove the element at position pos (0-based) of q
RefRemove(q, pos) ==
  IF pos < Len(q)
  THEN SubSeq(q, 1, pos) \o SubSeq(q, pos + 2, Len(q))
  ELSE q

\* the elements of q up to and including position pos, and the rest
RefHead(q, pos) == IF pos < Len(q) THEN SubSeq(q, 1, pos + 1) ELSE q
RefRest(q, pos) == IF pos < Len(q) THEN SubSeq(q, pos + 2, Len(q)) ELSE <<>>

Some == 1
NoIt == [kind |-> "none"]
NoCur == [kind |-> "none"]
NoCall == [op |-> "new"]

Idle == status = "run" /\ it.kind = "none" /\ cur.kind = "none"

\* install the concrete state s
Install(s) ==
  /\ mem' = s.mem
  /\ live' = s.live
  /\ brk' = s.brk
  /\ list' = s.list
  /\ dfree' = s.dfree
  /\ status' = s.status

Init ==
  /\ mem = [n \in Node |-> NodeNew(1)]
  /\ live = {}
  /\ brk = 0
  /\ list = [l \in ListId |-> ListNew]
  /\ scope = [l \in ListId |-> TRUE]
  /\ dfree = FALSE
  /\ status = "run"
  /\ it = NoIt
  /\ cur = NoCur
  /\ ref = [l \in ListId |-> <<>>]
  /\ net = [l \in ListId |-> 0]
  /\ joined = [l \in ListId |-> FALSE]
  /\ last = NoCall
  /\ calls = 0

\* ---- actions: one per public call --------------------------------------

PushFront ==
  \E l \in ListId, v \in Values :
    /\ Idle /\ scope[l]
    /\ brk < MaxPush
    /\ Install(push_front(St, l, v))
    /\ ref' = [ref EXCEPT ![l] = <<v>> \o @]
    /\ net' = [net EXCEPT ![l] = @ + 1]
    /\ last' = [op |-> "push_front", l |-> l]
    /\ UNCHANGED <<scope, it, cur>>
    /\ joined' = [joined EXCEPT ![l] = FALSE]
    /\ UNCHANGED calls

PushBack ==
  \E l \in ListId, v \in Values :
    /\ Idle /\ scope[l]
    /\ brk < MaxPush
    /\ Install(push_back(St, l, v))
    /\ ref' = [ref EXCEPT ![l] = Append(@, v)]
    /\ net' = [net EXCEPT ![l] = @ + 1]
    /\ last' = [op |-> "push_back", l |-> l]
    /\ UNCHANGED <<scope, it, cur>>
    /\ UNCHANGED joined
    /\ UNCHANGED calls

PopFront ==
  \E l \in ListId, g \in Views :
    LET r == pop_front(St, l, g) IN
    /\ Idle /\ scope[l]
    /\ Install(r.st)
    /\ ref' = [ref EXCEPT ![l] = IF @ = <<>> THEN @ ELSE Tail(@)]
    /\ net' = [net EXCEPT ![l] = IF r.ret # None THEN @ - 1 ELSE @]
    /\ last' = [op |-> "pop_front", l |-> l, ret |-> r.ret, exp |-> RefPopFront(ref[l])]
    /\ UNCHANGED <<scope, it, cur>>
    /\ joined' = [joined EXCEPT ![l] = FALSE]
    /\ UNCHANGED calls

PopBack ==
  \E l \in ListId, g \in Views :
    LET r == pop_back(St, l, g) IN
    /\ Idle /\ scope[l]
    /\ Install(r.st)
    /\ ref' = [ref EXCEPT ![l] = IF @ = <<>> THEN @ ELSE Front(@)]
    /\ net' = [net EXCEPT ![l] = IF r.ret # None THEN @ - 1 ELSE @]
    /\ last' = [op |-> "pop_back", l |-> l, ret |-> r.ret, exp |-> RefPopBack(ref[l])]
    /\ UNCHANGED <<scope, it, cur>>
    /\ UNCHANGED joined
    /\ UNCHANGED calls

\* a.append(&mut b)
AppendCall ==
  \E a \in ListId, b \in ListId :
    /\ Idle /\ a # b /\ scope[a] /\ scope[b]
    /\ Install(append(St, a, b))
    /\ ref' = [ref EXCEPT ![a] = ref[a] \o ref[b], ![b] = <<>>]
    /\ net' = [net EXCEPT ![a] = net[a] + net[b], ![b] = 0]
    /\ last' = [op |-> "append", l |-> a, o |-> b]
    /\ UNCHANGED <<scope, it, cur>>
    /\ joined' = [joined EXCEPT ![a] = ref[a] # <<>> /\ ref[b] # <<>>, ![b] = FALSE]
    /\ UNCHANGED calls

\* l.clear()
ClearCall ==
  \E l \in ListId, g \in Views :
    /\ Idle /\ scope[l]
    /\ Install(clear(St, l, g, MaxNodes))
    /\ ref' = [ref EXCEPT ![l] = <<>>]
    /\ net' = [net EXCEPT ![l] = 0]
    /\ last' = [op |-> "clear", l |-> l]
    /\ UNCHANGED <<scope, it, cur>>
    /\ joined' = [joined EXCEPT ![l] = FALSE]
    /\ UNCHANGED calls

\* the list l goes out of scope: Drop::drop
DropList ==
  \E l \in ListId, g \in Views :
    /\ Idle /\ scope[l]
    /\ Install(clear(St, l, g, MaxNodes))
    /\ scope' = [scope EXCEPT ![l] = FALSE]
    /\ ref' = [ref EXCEPT ![l] = <<>>]
    /\ net' = [net EXCEPT ![l] = 0]
    /\ last' = [op |-> "drop", l |-> l]
    /\ UNCHANGED <<it, cur>>
    /\ joined' = [joined EXCEPT ![l] = FALSE]
    /\ UNCHANGED calls

\* let l = LinkedList::new()
NewList ==
  \E l \in ListId :
    /\ Idle /\ ~scope[l]
    /\ list' = [list EXCEPT ![l] = ListNew]
    /\ scope' = [scope EXCEPT ![l] = TRUE]
    /\ last' = [op |-> "new", l |-> l]
    /\ UNCHANGED <<mem, live, brk, dfree, status, it, cur, ref, net>>
    /\ UNCHANGED joined
    /\ UNCHANGED calls

\* l.iter() and l.iter_mut()
IterNew ==
  \E l \in ListId, kind \in {"iter", "iter_mut"}, g \in Views :
    /\ Idle /\ scope[l]
    /\ it' = [iter(St, l, kind, g) EXCEPT !.size = IF @ = Diverge THEN 0 ELSE @]
              @@ [rem |-> ref[l]]
    /\ status' = lenStatus(St, l, g)
    /\ last' = [op |-> kind, l |-> l]
    /\ UNCHANGED <<mem, live, brk, list, scope, dfree, cur, ref, net>>
    /\ UNCHANGED joined
    /\ UNCHANGED calls

\* l.into_iter(): the list moves into the iterator
IntoIterNew ==
  \E l \in ListId :
    /\ Idle /\ scope[l]
    /\ it' = into_iter(St, l) @@ [rem |-> ref[l]]
    /\ scope' = [scope EXCEPT ![l] = FALSE]
    /\ last' = [op |-> "into_iter", l |-> l]
    /\ UNCHANGED <<mem, live, brk, list, dfree, status, cur, ref, net>>
    /\ joined' = [joined EXCEPT ![l] = FALSE]
    /\ UNCHANGED calls

\* next() on the iterator
IterNext ==
  \E g \in Views :
    LET r == IF it.kind = "into_iter" THEN IntoIter_next(it, St, g)
             ELSE Iter_next(it, St, g)
    IN
    /\ status = "run" /\ it.kind # "none"
    /\ Install(r.st)
    /\ it' = [r.i EXCEPT !.rem = IF @ = <<>> THEN @ ELSE Tail(@)]
    /\ ref' = IF it.kind = "into_iter" THEN [ref EXCEPT ![it.l] = it'.rem] ELSE ref
    /\ last' = [op |-> "next", l |-> it.l, ret |-> r.ret, exp |-> RefPopFront(it.rem)]
    /\ UNCHANGED <<scope, cur, net>>
    /\ UNCHANGED joined
    /\ UNCHANGED calls

\* next_back() on the iterator
IterNextBack ==
  \E g \in Views :
    LET r == IF it.kind = "into_iter" THEN IntoIter_next_back(it, St, g)
             ELSE Iter_next_back(it, St, g)
    IN
    /\ status = "run" /\ it.kind # "none"
    /\ Install(r.st)
    /\ it' = [r.i EXCEPT !.rem = IF @ = <<>> THEN @ ELSE Front(@)]
    /\ ref' = IF it.kind = "into_iter" THEN [ref EXCEPT ![it.l] = it'.rem] ELSE ref
    /\ last' = [op |-> "next_back", l |-> it.l, ret |-> r.ret, exp |-> RefPopBack(it.rem)]
    /\ UNCHANGED <<scope, cur, net>>
    /\ UNCHANGED joined
    /\ UNCHANGED calls

\* the iterator goes out of scope; an IntoIter drops the list it owns
IterDrop ==
  \E g \in Views :
    /\ status = "run" /\ it.kind # "none"
    /\ IF it.kind = "into_iter"
       THEN /\ Install(clear(St, it.l, g, MaxNodes))
            /\ ref' = [ref EXCEPT ![it.l] = <<>>]
       ELSE UNCHANGED <<mem, live, brk, list, dfree, status, ref>>
    /\ it' = NoIt
    /\ last' = [op |-> "drop_iter", l |-> it.l]
    /\ UNCHANGED <<scope, cur, net>>
    /\ UNCHANGED joined
    /\ UNCHANGED calls

\* let dst: LinkedList<_> = src.into_iter().collect()
Collect ==
  \E src \in ListId, dst \in ListId, g \in Views :
    /\ Idle /\ src # dst /\ scope[src] /\ ~scope[dst]
    /\ brk + Len(Chain(St, list[src].head, MaxNodes + 1, g)) <= MaxNodes
    /\ Install(from_iter(St, dst, src, g))
    /\ scope' = [scope EXCEPT ![src] = FALSE, ![dst] = TRUE]
    /\ ref' = [ref EXCEPT ![dst] = ref[src], ![src] = <<>>]
    /\ net' = [net EXCEPT ![dst] = net[src], ![src] = 0]
    /\ last' = [op |-> "collect", l |-> dst, o |-> src]
    /\ UNCHANGED <<it, cur>>
    /\ joined' = [joined EXCEPT ![src] = FALSE, ![dst] = FALSE]
    /\ UNCHANGED calls

\* cursor_front, cursor_back, cursor_front_mut, cursor_back_mut: None on a
\* null head (front) or tail (back)
CursorNew ==
  \E l \in ListId, kind \in {"cursor", "cursor_mut"}, back \in BOOLEAN, g \in Views :
    LET c == IF back THEN cursor_back_mut(St, l, g) ELSE cursor_front_mut(St, l, g)
        none == IF back THEN list[l].tail = NULL ELSE list[l].head = NULL
    IN
    /\ Idle /\ scope[l]
    /\ IF none \/ lenStatus(St, l, g) = "hang"
       THEN cur' = NoCur
       ELSE cur' = [c EXCEPT !.kind = kind]
                   @@ [pos |-> IF back /\ ref[l] # <<>> THEN Len(ref[l]) - 1 ELSE 0]
    /\ status' = IF none THEN status ELSE lenStatus(St, l, g)
    /\ last' = [op |-> IF back THEN "cursor_back" ELSE "cursor_front", l |-> l,
                ret |-> IF none THEN None ELSE Some,
                exp |-> IF ref[l] = <<>> THEN None ELSE Some]
    /\ UNCHANGED <<mem, live, brk, list, scope, dfree, it, ref, net>>
    /\ UNCHANGED joined
    /\ UNCHANGED calls

\* a cursor of either kind is alive (its length and index within the bounds)
CurAny ==
  /\ status = "run" /\ cur.kind # "none"
  /\ cur.length > 0 /\ cur.length <= MaxIndex
  /\ cur.index >= 0 /\ cur.index <= MaxIndex

\* a CursorMut is alive
CurMut == CurAny /\ cur.kind = "cursor_mut"

\* the length of the reference sequence the cursor is over
RefLen == IF ref[cur.l] = <<>> THEN 1 ELSE Len(ref[cur.l])

CurMovePrev ==
  \E g \in Views :
    LET r == move_prev(cur, St, g) IN
    /\ CurAny
    /\ Install(r.st)
    /\ cur' = [r.c EXCEPT !.pos = (@ + RefLen - 1) % RefLen]
    /\ last' = [op |-> "move", l |-> cur.l]
    /\ UNCHANGED <<scope, it, ref, net>>
    /\ UNCHANGED joined
    /\ calls < MaxCalls /\ calls' = calls + 1

CurMoveNext ==
  \E g \in Views :
    LET r == move_next(cur, St, g) IN
    /\ CurAny
    /\ Install(r.st)
    /\ cur' = [r.c EXCEPT !.pos = (@ + 1) % RefLen]
    /\ last' = [op |-> "move", l |-> cur.l]
    /\ UNCHANGED <<scope, it, ref, net>>
    /\ UNCHANGED joined
    /\ calls < MaxCalls /\ calls' = calls + 1

CurStepBy ==
  \E g \in Views, steps \in 0..MaxSteps :
    LET r == IF cur.kind = "cursor" THEN Cursor_step_by(cur, St, steps, g)
             ELSE step_by(cur, St, steps, g)
    IN
    /\ CurAny
    /\ Install(r.st)
    /\ cur' = [r.c EXCEPT !.pos = (@ + steps) % RefLen]
    /\ last' = [op |-> "move", l |-> cur.l]
    /\ UNCHANGED <<scope, it, ref, net>>
    /\ UNCHANGED joined
    /\ calls < MaxCalls /\ calls' = calls + 1

CurStepByBackward ==
  \E g \in Views, steps \in 0..MaxSteps :
    LET r == IF cur.kind = "cursor" THEN Cursor_step_by_backward(cur, St, steps, g)
             ELSE step_by_backward(cur, St, steps, g)
    IN
    /\ CurAny
    /\ Install(r.st)
    /\ cur' = [r.c EXCEPT !.pos = (@ + RefLen - (steps % RefLen)) % RefLen]
    /\ last' = [op |-> "move", l |-> cur.l]
    /\ UNCHANGED <<scope, it, ref, net>>
    /\ UNCHANGED joined
    /\ calls < MaxCalls /\ calls' = calls + 1

CurInsert ==
  \E g \in Views, v \in Values :
    LET r == insert(cur, St, v, g) IN
    /\ CurMut
    /\ brk < MaxPush
    /\ Install(r.st)
    /\ cur' = [r.c EXCEPT !.pos = @ + 1]
    /\ ref' = [ref EXCEPT ![cur.l] = RefInsert(@, cur.pos, v)]
    /\ last' = [op |-> "insert", l |-> cur.l]
    /\ UNCHANGED <<scope, it, net>>
    /\ joined' = [joined EXCEPT ![cur.l] = FALSE]
    /\ calls < MaxCalls /\ calls' = calls + 1

CurRemove ==
  \E g \in Views :
    LET r == remove(cur, St, g)
        q == ref[cur.l]
        ok == Len(q) >= 2
    IN
    /\ CurMut
    /\ Install(r.st)
    /\ cur' = [r.c EXCEPT !.pos = IF ok /\ @ < Len(q) - 1 THEN @ ELSE 0]
    /\ ref' = [ref EXCEPT ![cur.l] = IF ok THEN RefRemove(q, cur.pos) ELSE q]
    /\ last' = [op |-> "remove", l |-> cur.l, ret |-> r.ret,
                exp |-> IF ok /\ cur.pos < Len(q) THEN q[cur.pos + 1] ELSE None]
    /\ UNCHANGED <<scope, it, net>>
    /\ joined' = [joined EXCEPT ![cur.l] = FALSE]
    /\ calls < MaxCalls /\ calls' = calls + 1

\* let o = cursor.split()
CurSplit ==
  \E g \in Views, o \in ListId :
    LET r == split(cur, St, o, g) IN
    /\ CurMut
    /\ o # cur.l /\ ~scope[o]
    /\ Install(r.st)
    /\ cur' = r.c
    /\ scope' = [scope EXCEPT ![o] = TRUE]
    /\ ref' = [ref EXCEPT ![cur.l] = RefHead(@, cur.pos),
                          ![o] = RefRest(ref[cur.l], cur.pos)]
    /\ last' = [op |-> "split", l |-> cur.l, o |-> o]
    /\ UNCHANGED <<it, net>>
    /\ joined' = [joined EXCEPT ![cur.l] = FALSE, ![o] = FALSE]
    /\ calls < MaxCalls /\ calls' = calls + 1

\* cursor.splice(o)
CurSplice ==
  \E g \in Views, o \in ListId :
    LET r == splice(cur, St, o, g) IN
    /\ CurMut
    /\ o # cur.l /\ scope[o]
    /\ Install(r.st)
    /\ cur' = [r.c EXCEPT !.pos = @ + Len(ref[o])]
    /\ scope' = [scope EXCEPT ![o] = FALSE]
    /\ ref' = [ref EXCEPT ![cur.l] = RefHead(@, cur.pos) \o ref[o] \o RefRest(@, cur.pos),
                          ![o] = <<>>]
    /\ last' = [op |-> "splice", l |-> cur.l, o |-> o]
    /\ UNCHANGED <<it, net>>
    /\ joined' = [joined EXCEPT ![cur.l] = FALSE, ![o] = FALSE]
    /\ calls < MaxCalls /\ calls' = calls + 1

\* the cursor goes out of scope
CursorDrop ==
  /\ status = "run" /\ cur.kind # "none"
  /\ cur' = NoCur
  /\ last' = [op |-> "drop_cursor", l |-> cur.l]
  /\ UNCHANGED <<mem, live, brk, list, scope, dfree, status, it, ref, net>>
  /\ UNCHANGED joined
  /\ UNCHANGED calls

\* the position insert_at(v, index) puts v at in a sequence of n elements
RefInsertPos(n, index) ==
  IF n = 0 \/ index = 0 THEN 0 ELSE ((index - 1) % n) + 1

\* insert v so that it is at position pos (0-based) of q
RefInsertAt(q, pos, v) == SubSeq(q, 1, pos) \o <<v>> \o SubSeq(q, pos + 1, Len(q))

\* l.insert_at(v, index)
InsertAt ==
  \E l \in ListId, v \in Values, index \in 0..MaxIndex, g \in Views :
    /\ Idle /\ scope[l]
    /\ brk < MaxPush
    /\ Install(insert_at(St, l, v, index, g))
    /\ ref' = [ref EXCEPT ![l] = RefInsertAt(@, RefInsertPos(Len(@), index), v)]
    /\ last' = [op |-> "insert_at", l |-> l]
    /\ UNCHANGED <<scope, it, cur, net>>
    /\ joined' = [joined EXCEPT ![l] = FALSE]
    /\ calls < MaxCalls /\ calls' = calls + 1

\* l.remove_at(index)
RemoveAt ==
  \E l \in ListId, index \in 0..MaxIndex, g \in Views :
    LET r == remove_at(St, l, index, g)
        q == ref[l]
    IN
    /\ Idle /\ scope[l]
    /\ Install(r.st)
    /\ ref' = [ref EXCEPT ![l] = IF q = <<>> THEN q ELSE RefRemove(q, index % Len(q))]
    /\ last' = [op |-> "remove_at", l |-> l, ret |-> r.ret,
                exp |-> IF q = <<>> THEN None ELSE q[(index % Len(q)) + 1]]
    /\ UNCHANGED <<scope, it, cur, net>>
    /\ joined' = [joined EXCEPT ![l] = FALSE]
    /\ calls < MaxCalls /\ calls' = calls + 1

\* let o = l.split_at(index)
SplitAt ==
  \E l \in ListId, o \in ListId, index \in 0..MaxIndex, g \in Views :
    /\ Idle /\ scope[l]
    /\ o # l /\ ~scope[o]
    /\ Install(split_at(St, l, o, index, g))
    /\ scope' = [scope EXCEPT ![o] = TRUE]
    /\ ref' = [ref EXCEPT ![l] = RefHead(@, index), ![o] = RefRest(ref[l], index)]
    /\ last' = [op |-> "split_at", l |-> l, o |-> o]
    /\ UNCHANGED <<it, cur, net>>
    /\ joined' = [joined EXCEPT ![l] = FALSE, ![o] = FALSE]
    /\ calls < MaxCalls /\ calls' = calls + 1

\* l.splice_at(o, index)
SpliceAt ==
  \E l \in ListId, o \in ListId, index \in 0..MaxIndex, g \in Views :
    LET q == ref[l]
        j == IF q = <<>> THEN 0 ELSE index % Len(q)
    IN
    /\ Idle /\ scope[l]
    /\ o # l /\ scope[o]
    /\ Install(splice_at(St, l, o, index, g))
    /\ scope' = [scope EXCEPT ![o] = FALSE]
    /\ ref' = [ref EXCEPT ![l] = RefHead(q, j) \o ref[o] \o RefRest(q, j),
                          ![o] = <<>>]
    /\ last' = [op |-> "splice_at", l |-> l, o |-> o]
    /\ UNCHANGED <<it, cur, net>>
    /\ joined' = [joined EXCEPT ![l] = FALSE, ![o] = FALSE]
    /\ calls < MaxCalls /\ calls' = calls + 1

NextDeque ==
  \/ PushFront
  \/ PushBack
  \/ PopFront
  \/ PopBack

\* push_front, push_back, pop_front and pop_back only
SpecDeque == Init /\ [][NextDeque]_vars

Next ==
  \/ PushFront
  \/ PushBack
  \/ PopFront
  \/ PopBack
  \/ AppendCall
  \/ ClearCall
  \/ DropList
  \/ NewList
  \/ Collect
  \/ CursorNew
  \/ CursorDrop

\* the list-level calls: push, pop, append, clear, drop, new, collect and
\* the four cursor constructors
Spec == Init /\ [][Next]_vars

NextCursor ==
  \/ PushBack
  \/ PopFront
  \/ DropList
  \/ CursorNew
  \/ CurMovePrev
  \/ CurMoveNext
  \/ CurStepBy
  \/ CurStepByBackward
  \/ CurInsert
  \/ CurRemove
  \/ CurSplit
  \/ CurSplice
  \/ CursorDrop

\* lists built by push_back, shortened by pop_front, and walked and edited
\* through cursors
SpecCursor == Init /\ [][NextCursor]_vars

NextSplit ==
  \/ PushBack
  \/ PopBack
  \/ DropList
  \/ CursorNew
  \/ CurSplit
  \/ CursorDrop

\* lists built by push_back, shortened by pop_back, and split through
\* cursors
SpecSplit == Init /\ [][NextSplit]_vars

NextFacade ==
  \/ PushBack
  \/ DropList
  \/ InsertAt
  \/ RemoveAt
  \/ SplitAt
  \/ SpliceAt

\* lists built by push_back and edited by position through insert_at,
\* remove_at, split_at and splice_at
SpecFacade == Init /\ [][NextFacade]_vars

NextRemoveAt ==
  \/ PushFront
  \/ PushBack
  \/ RemoveAt

\* lists built by pushes and emptied by remove_at
SpecRemoveAt == Init /\ [][NextRemoveAt]_vars

NextIter ==
  \/ PushFront
  \/ PushBack
  \/ IterNew
  \/ IntoIterNew
  \/ IterNext
  \/ IterNextBack
  \/ IterDrop

\* lists built by pushes and traversed by the three iterators
SpecIter == Init /\ [][NextIter]_vars

\* ---- properties ---------------------------------------------------------

\* C1: every pop_front and pop_back returns what the reference deque
\* returns for that end, and None exactly when the reference deque is empty.
PopsMatchReference ==
  last.op \in {"pop_front", "pop_back"} => last.ret = last.exp

\* C2: len() is the number of pushes minus the number of pops that
\* returned a value, and is_empty() holds exactly when len() is 0.
LenIsPushesMinusPops ==
  \A l \in ListId, g \in Views :
    status = "run" =>
      /\ len(St, l, g) = net[l]
      /\ is_empty(St, l) <=> (len(St, l, g) = 0)

\* C3: no node is destroyed twice, and once every list has been dropped
\* no allocated node is left undestroyed.
EveryNodeDestroyedOnce ==
  /\ ~dfree
  /\ (Idle /\ \A l \in ListId : ~scope[l]) => live = {}

\* C4: after a.append(&mut b), a holds its former elements followed by b's
\* former elements, its length is the sum of the two lengths, and b is empty.
AppendConcatenates ==
  \A g \in Views :
    last.op = "append" =>
      /\ Fwd(St, last.l, g) = ref[last.l]
      /\ len(St, last.l, g) = Len(ref[last.l])
      /\ is_empty(St, last.o)
      /\ len(St, last.o, g) = 0

\* C5: on a list made by appending a non-empty list to a non-empty list
\* (and pushed to at the back since), every pop_back returns the last
\* element of the combined sequence, and None only when none is left.
PopBackCrossesTheJoin ==
  (last.op = "pop_back" /\ joined[last.l]) => last.ret = last.exp

\* C6: every next() and next_back() on one iterator yields the element the
\* reference traversal yields at that end, and None once all are yielded.
IterYieldsEachOnce ==
  last.op \in {"next", "next_back"} => last.ret = last.exp

\* C7: backward traversal of a list is the reverse of its forward traversal.
BackwardIsReverseOfForward ==
  \A l \in ListId, g \in Views :
    (Idle /\ scope[l]) => Bwd(St, l, g) = Reverse(Fwd(St, l, g))

\* C8: size_hint() is the number of elements the iterator has not yielded.
SizeHintIsRemaining ==
  \A g \in Views :
    (status = "run" /\ it.kind # "none") => size_hint(it, St, g) = Len(it.rem)

\* C9: collecting l.into_iter() gives a list with the length and the
\* front-to-back element sequence of l.
CollectReproducesList ==
  \A g \in Views :
    last.op = "collect" =>
      /\ status = "run"
      /\ Fwd(St, last.l, g) = ref[last.l]
      /\ len(St, last.l, g) = Len(ref[last.l])

\* C10: pop_front, pop_back, peek_front, peek_back and the four cursor
\* constructors return None exactly on a list with no elements, and leave
\* such a list empty.
EmptyListGivesNone ==
  /\ last.op \in {"pop_front", "pop_back", "cursor_front", "cursor_back"} =>
       /\ (last.ret = None) <=> (last.exp = None)
       /\ last.exp = None => is_empty(St, last.l)
  /\ \A l \in ListId, g \in Views :
       (Idle /\ scope[l]) =>
         /\ (peek_front(St, l, g) = None) <=> (ref[l] = <<>>)
         /\ (peek_back(St, l, g) = None) <=> (ref[l] = <<>>)

\* C11: while a cursor is alive, 0 <= index < length, length is the number
\* of elements of its list, and the bound node is the node at distance
\* index from the head along successor links.
CursorIndexLengthNode ==
  \A g \in Views :
    (status = "run" /\ cur.kind # "none") =>
      /\ 0 <= cur.index /\ cur.index < cur.length
      /\ cur.length = len(St, cur.l, g)
      /\ cur.curr = NodeAt(St, cur.l, cur.index, g)

\* C12: while a cursor is alive, its bound position is non-null, is an
\* allocated node and is a node of the cursor's own list, so current() does
\* not panic.
CursorBoundToLiveNode ==
  \A g \in Views :
    (status = "run" /\ cur.kind # "none") =>
      /\ cur.curr # NULL
      /\ cur.curr \in live
      /\ \E i \in 0..MaxNodes : NodeAt(St, cur.l, i, g) = cur.curr
      /\ ~Cursor_current(cur, St, g).panic

\* C13: for a cursor at index i of a list of n elements, prev() returns the
\* element and index of position (i - 1) mod n, and next() those of
\* position (i + 1) mod n.
PrevNextWrapAround ==
  \A g \in Views :
    LET q == Fwd(St, cur.l, g)
        n == Len(q)
        i == cur.index
    IN (CurAny /\ n > 0 /\ i < n) =>
         /\ Cursor_prev(cur, St, g) =
              Seen(Elem(q, (i + n - 1) % n), (i + n - 1) % n)
         /\ Cursor_next(cur, St, g) =
              Seen(Elem(q, (i + 1) % n), (i + 1) % n)

\* C14: from any cursor state, move_next() then move_prev(), and
\* move_prev() then move_next(), return to the same node and index.
MoveThereAndBack ==
  \A g \in Views :
    CurAny =>
      LET n1 == move_next(cur, St, g)
          n2 == move_prev(n1.c, n1.st, g)
          p1 == move_prev(cur, St, g)
          p2 == move_next(p1.c, p1.st, g)
      IN /\ n2.c.curr = cur.curr /\ n2.c.index = cur.index
         /\ p2.c.curr = cur.curr /\ p2.c.index = cur.index

\* C15: step_by(steps) of either cursor kind ends at index
\* (index + steps) mod length, bound to the node at that index.
StepByReachesTarget ==
  \A g \in Views, steps \in 0..MaxSteps :
    (CurAny /\ cur.index < cur.length) =>
      LET r == StepBy(cur, St, steps, g)
          target == (cur.index + steps) % cur.length
      IN /\ r.c.index = target
         /\ r.c.curr = NodeAt(St, cur.l, target, g)

\* C16: step_by(k) then step_by(n - k), for 0 <= k <= n with n the cursor's
\* length, returns to the original index and node.
StepByFullCircle ==
  \A g \in Views, k \in 0..MaxIndex :
    (CurAny /\ cur.index < cur.length /\ k <= cur.length) =>
      LET r1 == StepBy(cur, St, k, g)
          r2 == StepBy(r1.c, r1.st, cur.length - k, g)
      IN r2.c.index = cur.index /\ r2.c.curr = cur.curr

\* C17: insert(v) with the cursor at index i of a list of n elements puts v
\* at position i + 1 of the forward sequence and makes the length n + 1;
\* the cursor is then on v at index i + 1, its prev is the old current
\* element at index i, and its next is the former successor at index i + 2
\* (the head at index 0 if v is last).
InsertAfterCurrent ==
  \A g \in Views, v \in Values :
    LET old == Fwd(St, cur.l, g)
        n == Len(old)
        i == cur.index
        r == insert(cur, St, v, g)
    IN (CurMut /\ i < n /\ n <= MaxPush) =>
         /\ r.st.status = "run"
         /\ Fwd(r.st, cur.l, g) = RefInsert(old, i, v)
         /\ len(r.st, cur.l, g) = n + 1
         /\ Cursor_current(r.c, r.st, g) =
              Seen(v, i + 1)
         /\ Cursor_prev(r.c, r.st, g) =
              Seen(Elem(old, i), i)
         /\ Cursor_next(r.c, r.st, g) =
              IF i = n - 1
              THEN Seen(Elem(old, 0), 0)
              ELSE Seen(Elem(old, i + 1), i + 2)

\* C18: remove() through a cursor on a list with exactly one element
\* returns the error and changes neither the list nor the cursor.
RemoveRefusedOnSingleton ==
  \A g \in Views :
    LET r == remove(cur, St, g) IN
    (CurMut /\ len(St, cur.l, g) = 1) =>
      /\ r.ret = None
      /\ r.st = St
      /\ r.c = cur

\* C19: remove() on a list of two or more elements returns the element
\* that was current and leaves the forward sequence without exactly that
\* one element, so the length decreases by one.
RemoveTakesCurrent ==
  \A g \in Views :
    LET old == Fwd(St, cur.l, g)
        n == Len(old)
        r == remove(cur, St, g)
    IN (CurMut /\ n >= 2 /\ n <= MaxNodes) =>
         /\ r.st.status = "run"
         /\ r.ret # None
         /\ r.ret = Cursor_current(cur, St, g).val
         /\ len(r.st, cur.l, g) = n - 1
         /\ \E j \in 0..(n - 1) :
              old[j + 1] = r.ret /\ Fwd(r.st, cur.l, g) = RefRemove(old, j)

\* C20: after a successful remove() at index i of a list of length n the
\* cursor is on the removed node's former successor at index i, or on the
\* new head at index 0 if the removed node was the tail; its length is
\* n - 1, and prev_mut() and next_mut() report the neighbours of that
\* position with wrap-around.
CursorAfterRemove ==
  \A g \in Views :
    LET n == cur.length
        i == cur.index
        r == remove(cur, St, g)
        q == Fwd(r.st, cur.l, g)
        m == n - 1
        j == r.c.index
    IN (CurMut /\ n >= 2 /\ i < n /\ r.ret # None) =>
         /\ r.c.length = m
         /\ IF i = n - 1
            THEN r.c.curr = r.st.list[cur.l].head /\ j = 0
            ELSE r.c.curr = Rd(St, cur.curr, g).next /\ j = i
         /\ Cursor_prev(r.c, r.st, g) =
              Seen(Elem(q, (j + m - 1) % m), (j + m - 1) % m)
         /\ Cursor_next(r.c, r.st, g) =
              Seen(Elem(q, (j + 1) % m), (j + 1) % m)

\* C21: split() with the cursor at index i < n - 1 of a list with sequence
\* s leaves the list with s[0..=i], the current node its tail, and returns
\* a list with s[i+1..n); the two lengths sum to n.
SplitCutsAfterCurrent ==
  \A g \in Views, o \in ListId :
    LET s == Fwd(St, cur.l, g)
        n == Len(s)
        i == cur.index
        r == split(cur, St, o, g)
    IN (CurMut /\ o # cur.l /\ ~scope[o] /\ n <= MaxNodes /\ i < n - 1) =>
         /\ r.st.status = "run"
         /\ Fwd(r.st, cur.l, g) = SubSeq(s, 1, i + 1)
         /\ Fwd(r.st, o, g) = SubSeq(s, i + 2, n)
         /\ r.st.list[cur.l].tail = cur.curr
         /\ len(r.st, cur.l, g) + len(r.st, o, g) = n

\* C22: split() with the cursor on the last element of its list returns an
\* empty list and leaves the list's head, tail, links and elements and the
\* cursor's position, index and length unchanged.
SplitAtTailIsNoOp ==
  \A g \in Views, o \in ListId :
    LET r == split(cur, St, o, g) IN
    (cur.kind = "cursor_mut" /\ status # "hang" /\ o # cur.l /\ ~scope[o]
     /\ cur.curr # NULL /\ cur.curr = list[cur.l].tail) =>
      /\ is_empty(r.st, o)
      /\ r.st.list[cur.l] = list[cur.l]
      /\ r.st.mem = mem
      /\ Fwd(r.st, cur.l, g) = Fwd(St, cur.l, g)
      /\ r.c = cur

\* C23: splice(other) with the cursor at index i of a list with sequence s
\* yields s[0..=i], then other's sequence, then s[i+1..n), of length
\* n + other.len(); with an empty other the list is unchanged.
SpliceInsertsAfterCurrent ==
  \A g \in Views, o \in ListId :
    LET s == Fwd(St, cur.l, g)
        t == Fwd(St, o, g)
        n == Len(s)
        i == cur.index
        r == splice(cur, St, o, g)
    IN (CurMut /\ o # cur.l /\ scope[o] /\ i < n /\ n + Len(t) <= MaxNodes) =>
         /\ r.st.status = "run"
         /\ Fwd(r.st, cur.l, g) = SubSeq(s, 1, i + 1) \o t \o SubSeq(s, i + 2, n)
         /\ len(r.st, cur.l, g) = n + len(St, o, g)
         /\ is_empty(St, o) => (r.st = St /\ r.c = cur)

\* C24: after splice(other) with a non-empty other of m elements at index i
\* of a list of n elements, the cursor is on other's former tail with
\* index i + m and length n + m, its prev is the element before that tail
\* (the old current element when m = 1), and other is left with null head
\* and tail, so that dropping it frees nothing.
CursorAfterSplice ==
  \A g \in Views, o \in ListId :
    LET s == Fwd(St, cur.l, g)
        t == Fwd(St, o, g)
        n == Len(s)
        m == Len(t)
        i == cur.index
        r == splice(cur, St, o, g)
    IN (CurMut /\ o # cur.l /\ scope[o] /\ i < n /\ m > 0 /\ n + m <= MaxNodes) =>
         /\ r.c.curr = list[o].tail
         /\ r.c.index = i + m
         /\ r.c.length = n + m
         /\ Cursor_prev(r.c, r.st, g) =
              Seen(IF m = 1 THEN Elem(s, i) ELSE Elem(t, m - 2), i + m - 1)
         /\ r.st.list[o] = ListNew
         /\ clear(r.st, o, g, MaxNodes).live = r.st.live

\* C25: on a non-empty list of n elements, remove_at(i) returns the element
\* at position i mod n and leaves the forward sequence without exactly
\* that element.
RemoveAtTakesIndex ==
  \A l \in ListId, i \in 0..MaxIndex, g \in Views :
    LET s == Fwd(St, l, g)
        n == Len(s)
        r == remove_at(St, l, i, g)
    IN (Idle /\ scope[l] /\ n > 0 /\ n <= MaxNodes) =>
         /\ r.st.status = "run"
         /\ r.ret = Elem(s, i % n)
         /\ Fwd(r.st, l, g) = RefRemove(s, i % n)

\* C26: remove_at(i) on an empty list returns the error for every i and
\* leaves the list empty; a list whose elements have all been removed by
\* remove_at calls is such an empty list.
RemoveAtOnEmptyIsError ==
  /\ \A l \in ListId, i \in 0..MaxIndex, g \in Views :
       LET r == remove_at(St, l, i, g) IN
       (Idle /\ scope[l] /\ is_empty(St, l)) =>
         /\ r.ret = None
         /\ r.st = St
         /\ len(r.st, l, g) = 0
  /\ (last.op = "remove_at" /\ last.exp # None /\ ref[last.l] = <<>>) =>
       /\ status = "run"
       /\ is_empty(St, last.l)

\* C27: insert_at(v, i) on a list of n elements puts v at position 0 when
\* n = 0 or i = 0 and at position ((i - 1) mod n) + 1 otherwise; the other
\* elements keep their order and the length becomes n + 1.
InsertAtPlacesAtIndex ==
  \A l \in ListId, v \in Values, i \in 0..MaxIndex, g \in Views :
    LET s == Fwd(St, l, g)
        n == Len(s)
        r == insert_at(St, l, v, i, g)
    IN (Idle /\ scope[l] /\ n < MaxNodes /\ brk < MaxNodes) =>
         /\ r.status = "run"
         /\ Fwd(r, l, g) = RefInsertAt(s, RefInsertPos(n, i), v)
         /\ len(r, l, g) = n + 1

\* C28: for a list of n elements and 0 <= i < n, split_at(i) leaves the
\* first i + 1 elements in the list and returns the remaining n - i - 1
\* elements in their original order.
SplitAtKeepsPrefix ==
  \A l \in ListId, o \in ListId, i \in 0..MaxIndex, g \in Views :
    LET s == Fwd(St, l, g)
        n == Len(s)
        r == split_at(St, l, o, i, g)
    IN (Idle /\ scope[l] /\ o # l /\ ~scope[o] /\ n <= MaxNodes /\ i < n) =>
         /\ r.status = "run"
         /\ Fwd(r, l, g) = SubSeq(s, 1, i + 1)
         /\ Fwd(r, o, g) = SubSeq(s, i + 2, n)

\* C29: for a non-empty list of n elements, split_at(n) returns an empty
\* list and leaves all n elements in the original list.
SplitAtLengthKeepsAll ==
  \A l \in ListId, o \in ListId, g \in Views :
    LET s == Fwd(St, l, g)
        n == Len(s)
        r == split_at(St, l, o, n, g)
    IN (Idle /\ scope[l] /\ o # l /\ ~scope[o] /\ n > 0 /\ n <= MaxIndex) =>
         /\ r.status = "run"
         /\ is_empty(r, o)
         /\ len(r, o, g) = 0
         /\ Fwd(r, l, g) = s

\* C30: splice_at(other, i) on a non-empty list with sequence s of n
\* elements yields s[0..=j], then other's elements, then s[j+1..n), with
\* j = i mod n; on an empty list it makes the list equal to other, with
\* other's head and tail; the length grows by other.len(), and dropping
\* other afterwards frees no node.
SpliceAtInsertsAfterIndex ==
  \A l \in ListId, o \in ListId, i \in 0..MaxIndex, g \in Views :
    LET s == Fwd(St, l, g)
        t == Fwd(St, o, g)
        n == Len(s)
        j == i % n
        r == splice_at(St, l, o, i, g)
    IN (Idle /\ scope[l] /\ scope[o] /\ o # l /\ n + Len(t) <= MaxNodes) =>
         /\ r.status = "run"
         /\ Fwd(r, l, g) = IF n = 0 THEN t
                           ELSE SubSeq(s, 1, j + 1) \o t \o SubSeq(s, j + 2, n)
         /\ len(r, l, g) = n + Len(t)
         /\ n = 0 => r.list[l] = list[o]
         /\ clear(r, o, g, MaxNodes).live = r.live

\* C31: on a non-empty list of n elements, insert_at, remove_at, split_at
\* and splice_at called with index i give the same lists and the same
\* return value as the same call with index i mod n.
IndexWrapsModuloLength ==
  \A l \in ListId, o \in ListId, v \in Values, i \in 0..MaxIndex, g \in Views :
    LET n == len(St, l, g)
        j == i % n
    IN (Idle /\ scope[l] /\ o # l /\ n > 0) =>
         /\ brk < MaxNodes =>
              Fwd(insert_at(St, l, v, i, g), l, g) = Fwd(insert_at(St, l, v, j, g), l, g)
         /\ remove_at(St, l, i, g) = remove_at(St, l, j, g)
         /\ ~scope[o] => split_at(St, l, o, i, g) = split_at(St, l, o, j, g)
         /\ scope[o] => splice_at(St, l, o, i, g) = splice_at(St, l, o, j, g)

\* the addresses of the nodes of list l: those on the successor chain from
\* its head
NodesOf(s, l, g) ==
  LET c == Chain(s, s.list[l].head, MaxNodes + 1, g)
  IN {c[i] : i \in 1..Len(c)}

\* C32: on any reachable list clear() terminates, destroys exactly the
\* nodes that were in the list, each once, and leaves the list empty:
\* len() is 0, is_empty() holds, peek_front() and peek_back() return None,
\* and a push afterwards gives a list of that one element.
ClearEmptiesTheList ==
  \A l \in ListId, v \in Values, g \in Views :
    LET r == clear(St, l, g, MaxNodes)
        p == push_back(r, l, v)
    IN (Idle /\ scope[l]) =>
         /\ r.status = "run"
         /\ ~r.dfree
         /\ r.live = live \ NodesOf(St, l, g)
         /\ len(r, l, g) = 0
         /\ is_empty(r, l)
         /\ peek_front(r, l, g) = None
         /\ peek_back(r, l, g) = None
         /\ brk < MaxNodes => (Fwd(p, l, g) = <<v>> /\ Bwd(p, l, g) = <<v>>)

\* C33: link symmetry: in every list, a node's successor has that node as
\* its predecessor, and a node's predecessor has that node as its successor.
LinkSymmetry ==
  \A l \in ListId, g \in Views :
    (Idle /\ scope[l]) =>
      \A p \in NodesOf(St, l, g) :
        LET n == Rd(St, p, g) IN
        /\ n.next # NULL => Rd(St, n.next, g).prev = p
        /\ n.prev # NULL => Rd(St, n.prev, g).next = p

\* C34: in every non-empty list the head's predecessor link and the tail's
\* successor link are null, and no other node of the list has a null
\* predecessor or successor link.
EndsHaveNullLinks ==
  \A l \in ListId, g \in Views :
    (Idle /\ scope[l] /\ list[l].head # NULL) =>
      /\ list[l].tail # NULL
      /\ Rd(St, list[l].head, g).prev = NULL
      /\ Rd(St, list[l].tail, g).next = NULL
      /\ \A p \in NodesOf(St, l, g) :
           /\ p # list[l].head => Rd(St, p, g).prev # NULL
           /\ p # list[l].tail => Rd(St, p, g).next # NULL

\* C35: a list's head is null exactly when its tail is null, exactly when
\* it holds no element; whichever call removes the last element leaves
\* both null.
HeadTailNullIffEmpty ==
  \A l \in ListId :
    (Idle /\ scope[l]) =>
      /\ (list[l].head = NULL) <=> (list[l].tail = NULL)
      /\ (list[l].head = NULL) <=> (ref[l] = <<>>)

\* C36: no list's head or tail and no link of a node of a list refers to a
\* destroyed node, so that len() never follows a link into one.
NoLinkToDestroyedNode ==
  \A l \in ListId, g \in Views :
    (Idle /\ scope[l]) =>
      /\ list[l].head \in live \cup {NULL}
      /\ list[l].tail \in live \cup {NULL}
      /\ \A p \in NodesOf(St, l, g) \cap live :
           /\ mem[p].next \in live \cup {NULL}
           /\ mem[p].prev \in live \cup {NULL}
      /\ lenStatus(St, l, g) = "run"

\* C37: for every CursorMut, the bound node's successor link is null
\* exactly when index = length - 1 and its predecessor link is null exactly
\* when index = 0.
NullLinksAgreeWithIndex ==
  \A g \in Views :
    CurMut =>
      /\ cur.curr # NULL
      /\ (Rd(St, cur.curr, g).next = NULL) <=> (cur.index = cur.length - 1)
      /\ (Rd(St, cur.curr, g).prev = NULL) <=> (cur.index = 0)

\* ---- Round trips on well-formed lists ----------------------------------

\* the list l is well-formed: its successor chain from head is finite and
\* allocated, head is null exactly when tail is, the head has no
\* predecessor, the chain ends at tail, and every other node's predecessor
\* link is the node before it
WellFormed(s, l, g) ==
  LET c == Chain(s, s.list[l].head, MaxNodes + 1, g)
      n == Len(c)
  IN /\ n <= MaxNodes
     /\ Sound(s, c)
     /\ (s.list[l].head = NULL) <=> (s.list[l].tail = NULL)
     /\ n > 0 => /\ s.list[l].tail = c[n]
                 /\ s.mem[c[1]].prev = NULL
                 /\ \A i \in 1..(n - 1) : s.mem[c[i + 1]].prev = c[i]

\* the cursor c is at a position of its list: its length is the list's
\* length, its index is within it, and it is bound to the node at that
\* index (what cursor_front_mut and cursor_back_mut establish and the
\* moves keep on a well-formed list)
AtPosition(c, s, g) ==
  /\ c.length = len(s, c.l, g)
  /\ c.index >= 0 /\ c.index < c.length
  /\ c.curr = NodeAt(s, c.l, c.index, g)

\* while let Some(v) = l.pop_back(): the values returned, in order, and the
\* state the loop leaves
RECURSIVE PopAllBack(_, _, _, _)
PopAllBack(s, l, g, fuel) ==
  LET r == pop_back(s, l, g) IN
  IF r.ret = None \/ fuel = 0 THEN [vals |-> <<>>, st |-> r.st]
  ELSE LET t == PopAllBack(r.st, l, g, fuel - 1)
       IN [vals |-> <<r.ret>> \o t.vals, st |-> t.st]

NextRoundTrip ==
  \/ PushBack
  \/ DropList
  \/ CursorNew
  \/ CurMoveNext
  \/ CurInsert
  \/ CurRemove
  \/ CurSplit
  \/ CursorDrop
  \/ AppendCall

\* lists built by push_back, walked forward through cursors, edited by
\* insert, remove and split, and joined again by append
SpecRoundTrip == Init /\ [][NextRoundTrip]_vars

\* C38: for a CursorMut at any position of a well-formed list,
\* rest = cursor.split() followed by list.append(&mut rest) gives back the
\* list's element sequence, as read forward and as returned by repeated
\* pop_back, and leaves rest empty.
SplitThenAppendRestores ==
  \A o \in ListId, g \in Views :
    LET r == split(cur, St, o, g)
        j == append(r.st, cur.l, o)
        b == PopAllBack(j, cur.l, g, MaxNodes)
    IN (CurMut /\ ~scope[o] /\ o # cur.l /\ WellFormed(St, cur.l, g)
        /\ AtPosition(cur, St, g)) =>
         /\ j.status = "run"
         /\ Fwd(j, cur.l, g) = Fwd(St, cur.l, g)
         /\ b.vals = Reverse(Fwd(St, cur.l, g))
         /\ b.st.status = "run"
         /\ is_empty(j, o)
         /\ len(j, o, g) = 0

\* C38 is exercised: a CursorMut on the middle node of a well-formed list
\* of three elements, whose split leaves a non-empty rest
SplitThenAppendRestoresSeen ==
  \E o \in ListId, g \in Views :
    /\ CurMut /\ ~scope[o] /\ o # cur.l /\ WellFormed(St, cur.l, g)
    /\ AtPosition(cur, St, g)
    /\ len(St, cur.l, g) = 3
    /\ cur.index = 1
    /\ len(split(cur, St, o, g).st, o, g) = 1
    /\ len(append(split(cur, St, o, g).st, cur.l, o), cur.l, g) = 3

\* C39: for a CursorMut at any position of a well-formed list, insert(v)
\* followed by remove() returns Ok(v) and gives back the list: the same
\* element sequence forward and backward, the same head and tail, the same
\* links in every node, and the cursor's length as before.
InsertThenRemoveRestores ==
  \A v \in Values, g \in Views :
    LET i == insert(cur, St, v, g)
        r == remove(i.c, i.st, g)
    IN (CurMut /\ brk < MaxNodes /\ WellFormed(St, cur.l, g)
        /\ AtPosition(cur, St, g)) =>
         /\ r.ret = v
         /\ r.st.status = "run"
         /\ Fwd(r.st, cur.l, g) = Fwd(St, cur.l, g)
         /\ Bwd(r.st, cur.l, g) = Bwd(St, cur.l, g)
         /\ Bwd(r.st, cur.l, g) = Reverse(Fwd(r.st, cur.l, g))
         /\ r.st.list[cur.l] = list[cur.l]
         /\ \A p \in NodesOf(St, cur.l, g) : r.st.mem[p] = mem[p]
         /\ r.c.length = cur.length

\* C39 is exercised: a CursorMut on the last node of a well-formed list of
\* two elements, where insert moves the tail to the new node and remove
\* moves it back
InsertThenRemoveRestoresSeen ==
  \E v \in Values, g \in Views :
    /\ CurMut /\ brk < MaxNodes /\ WellFormed(St, cur.l, g)
    /\ AtPosition(cur, St, g)
    /\ len(St, cur.l, g) = 2
    /\ cur.index = 1
    /\ insert(cur, St, v, g).st.list[cur.l].tail # list[cur.l].tail
    /\ remove(insert(cur, St, v, g).c, insert(cur, St, v, g).st, g).ret = v

====
